---- MODULE Spec2Model ----
(***************************************************************************)
(* VoiceScan AI: the recording session of src/App.tsx (start flow,         *)
(* instruction playback, tick loop, stop, external analysis) and the       *)
(* request builder of the Gemini service (src/unnamed/part_000).           *)
(*                                                                         *)
(* One action is one browser task: an event handler or promise reaction    *)
(* together with the microtasks it releases (the continuation of an        *)
(* `await` whose promise it settles) and the React commit of the state it  *)
(* sets, including the status effect of App.tsx:46-57 (React 18 and later  *)
(* flush the render and the effects of a click before the click's task     *)
(* ends, so no animation frame runs between setStatus and the effect).     *)
(* Each start request is a flow of its own: nothing in startAnalysisFlow   *)
(* keeps a second request from being accepted while analyzer.start() of    *)
(* the first is pending, so flows overlap.                                 *)
(*                                                                         *)
(* services/audioAnalyzer and components/Spectrogram are not part of the   *)
(* sources at hand; their operations are modelled from the specification   *)
(* (SignalWindow, SpectralAnalyzer, SpectrogramBuffer).                    *)
(***************************************************************************)
EXTENDS Integers, Sequences, FiniteSets, TLC

\* ----------------------------------------------------------------- bounds
\* start requests over the life of the page
MaxFlows == 2
\* audio windows the input producer delivers
MaxWindow == 1

Flows == 1..MaxFlows
Windows == 0..MaxWindow

\* ------------------------------------------------------------- constants
IDLE == "IDLE"
RECORDING == "RECORDING"
PROCESSING == "PROCESSING"
COMPLETED == "COMPLETED"
ERROR == "ERROR"
AnalysisStatus == {IDLE, RECORDING, PROCESSING, COMPLETED, ERROR}

Null == "null"
FalhaMsg == "Falha na analise da IA."
ConnErrMsg == "Erro ao conectar com a IA. Verifique sua chave de API ou tente novamente."
NoAnalysisMsg == "Nao foi possivel gerar uma analise."
ReportText == "report"
AudioPrompt == "Analise este audio focando nas caracteristicas da voz."
SpectroPrompt == "Analise o audio e a imagem do espectrograma anexada."
PngHeader == "data:image/png;base64,"
StrippedHeaders == {"data:image/png;base64,", "data:image/jpg;base64,", "data:image/jpeg;base64,"}

\* A JavaScript value string | undefined: undef, or a string made of an
\* optional data-URL header and a payload (data = -1: no payload).
Undefined == [undef |-> TRUE, hdr |-> "", data |-> -1]
EmptyString == [undef |-> FALSE, hdr |-> "", data |-> -1]
Truthy(x) == ~x.undef /\ (x.hdr # "" \/ x.data # -1)

VARIABLES
  status, metrics, frequencyData, geminiAnalysis, isSpeakingInstructions,
  mediaRecorderRef, chunksRef, animationRef, instructionResolverRef,
  frames, analyzerOn, window,
  flowPc, utterance, timer, recorder, stopEvent, onstop, analysis, request,
  alerted, stopOutcome

vars == <<status, metrics, frequencyData, geminiAnalysis, isSpeakingInstructions,
          mediaRecorderRef, chunksRef, animationRef, instructionResolverRef,
          frames, analyzerOn, window,
          flowPc, utterance, timer, recorder, stopEvent, onstop, analysis, request,
          alerted, stopOutcome>>

\* The component state as one record, so that the statements of a handler
\* compose in program order.
Cur ==
  [status |-> status, metrics |-> metrics, frequencyData |-> frequencyData,
   geminiAnalysis |-> geminiAnalysis,
   isSpeakingInstructions |-> isSpeakingInstructions,
   mediaRecorderRef |-> mediaRecorderRef, chunksRef |-> chunksRef,
   animationRef |-> animationRef,
   instructionResolverRef |-> instructionResolverRef,
   frames |-> frames, analyzerOn |-> analyzerOn, window |-> window,
   flowPc |-> flowPc, utterance |-> utterance, timer |-> timer,
   recorder |-> recorder, stopEvent |-> stopEvent, onstop |-> onstop,
   analysis |-> analysis, request |-> request, alerted |-> alerted]

\* stopOutcome: whether the step just taken was a stop request, and whether
\* stopRecording found an active recorder ("accepted", "ignored", "none").
Commit(s, step) ==
  /\ status' = s.status
  /\ metrics' = s.metrics
  /\ frequencyData' = s.frequencyData
  /\ geminiAnalysis' = s.geminiAnalysis
  /\ isSpeakingInstructions' = s.isSpeakingInstructions
  /\ mediaRecorderRef' = s.mediaRecorderRef
  /\ chunksRef' = s.chunksRef
  /\ animationRef' = s.animationRef
  /\ instructionResolverRef' = s.instructionResolverRef
  /\ frames' = s.frames
  /\ analyzerOn' = s.analyzerOn
  /\ window' = s.window
  /\ flowPc' = s.flowPc
  /\ utterance' = s.utterance
  /\ timer' = s.timer
  /\ recorder' = s.recorder
  /\ stopEvent' = s.stopEvent
  /\ onstop' = s.onstop
  /\ analysis' = s.analysis
  /\ request' = s.request
  /\ alerted' = s.alerted
  /\ stopOutcome' = step

\* ------------------------------------------------------------- analyzer
\* getPitch / getVolume / getFrequencyData of the window with number w;
\* window 0 is the zero-filled window before the first fill.
getPitch(w) == IF w = 0 THEN 0 ELSE 100 * w
getVolume(w) == IF w = 0 THEN -100 ELSE 0 - w
getFrequencyData(w) == <<w>>

InitMetrics == [pitch |-> 0, volume |-> -100, clarity |-> 0]
\* One call of performGeminiAnalysis: where it stands, its arguments while it
\* runs, and once it is over how the service's promise settled and why.
NoAnalysis ==
  [pc |-> "none", audio |-> <<>>, image |-> Undefined, settled |-> "pending",
   result |-> "none"]
NoRequest == <<>>
UnsetHandler == [set |-> FALSE, image |-> Undefined]

Init ==
  /\ status = IDLE
  /\ metrics = InitMetrics
  /\ frequencyData = <<>>
  /\ geminiAnalysis = Null
  /\ isSpeakingInstructions = FALSE
  /\ mediaRecorderRef = 0
  /\ chunksRef = <<>>
  /\ animationRef = 0
  /\ instructionResolverRef = 0
  /\ frames = {}
  /\ analyzerOn = FALSE
  /\ window = 0
  /\ flowPc = [f \in Flows |-> "new"]
  /\ utterance = [f \in Flows |-> "none"]
  /\ timer = [f \in Flows |-> "none"]
  /\ recorder = [f \in Flows |-> "none"]
  /\ stopEvent = [f \in Flows |-> FALSE]
  /\ onstop = [f \in Flows |-> UnsetHandler]
  /\ analysis = [f \in Flows |-> NoAnalysis]
  /\ request = [f \in Flows |-> NoRequest]
  /\ alerted = [f \in Flows |-> FALSE]
  /\ stopOutcome = "none"


\* -------------------------------------------------------------- tick loop
\* The windows the three reads of one tick can see: the producer fills the
\* analyzer's buffer on its own thread, so each read sees the window current
\* at its own instant; with the input released the buffer no longer moves.
Reads(s) ==
  IF s.analyzerOn
    THEN {rd \in Windows \X Windows \X Windows :
            s.window <= rd[1] /\ rd[1] <= rd[2] /\ rd[2] <= rd[3]}
    ELSE {<<s.window, s.window, s.window>>}

NoReads == <<0, 0, 0>>

requestAnimationFrame(s) ==
  CHOOSE id \in 1..(Cardinality(s.frames) + 1) :
    /\ id \notin s.frames
    /\ \A j \in 1..(id - 1) : j \in s.frames

\* cancelAnimationFrame that cancels nothing.
cancelAnimationFrame_Noop(s, id) == s

cancelAnimationFrame(s, id) ==
  IF id # 0 THEN [s EXCEPT !.frames = @ \ {id}] ELSE s

\* updateMetrics as the closure created in a render with status cs.
updateMetrics(s, cs, rd) ==
  IF cs = RECORDING
    THEN LET id == requestAnimationFrame(s)
         IN [s EXCEPT !.metrics = [pitch |-> getPitch(rd[1]),
                                   volume |-> getVolume(rd[2]),
                                   clarity |-> 0],
                      !.frequencyData = getFrequencyData(rd[3]),
                      !.window = rd[3],
                      !.frames = @ \cup {id},
                      !.animationRef = id]
    ELSE s

\* StatusEffect with neither the cleanup nor the else branch cancelling the
\* scheduled frame.
StatusEffect_NoCancel(s, rd) ==
  IF s.status = RECORDING THEN updateMetrics(s, s.status, rd) ELSE s

\* The effect on [status, updateMetrics]: the previous run's cleanup, then
\* the body for the status just committed.
StatusEffect(s, rd) ==
  LET cleaned == cancelAnimationFrame(s, s.animationRef)
  IN IF cleaned.status = RECORDING
       THEN updateMetrics(cleaned, cleaned.status, rd)
       ELSE cancelAnimationFrame(cleaned, cleaned.animationRef)

\* setStatus and the commit it causes; setting the current value is no
\* state change, so nothing re-renders and no effect runs.
setStatus(s, v, rd) ==
  IF s.status = v THEN s ELSE StatusEffect([s EXCEPT !.status = v], rd)

\* ------------------------------------------------------------- start flow
\* window.speechSynthesis.cancel(): every queued utterance is dropped; its
\* end/error event is still to be delivered.
cancelSpeech(s) ==
  [s EXCEPT !.utterance =
     [f \in Flows |-> IF s.utterance[f] = "queued" THEN "cancelled" ELSE s.utterance[f]]]

\* startFailed that also resets the published metrics.
startFailed_ResetsMetrics(s, f, pc) ==
  setStatus([s EXCEPT !.alerted[f] = TRUE, !.flowPc[f] = pc,
                      !.metrics = InitMetrics], IDLE, NoReads)

\* startFailed that reports the failure but leaves status as it is.
startFailed_KeepsStatus(s, f, pc) ==
  [s EXCEPT !.alerted[f] = TRUE, !.flowPc[f] = pc]

\* catch block of startAnalysisFlow; pc: where the flow ends, "rejected"
\* (analyzer.start() failed) or "failed" (a later statement threw).
startFailed(s, f, pc) ==
  setStatus([s EXCEPT !.alerted[f] = TRUE, !.flowPc[f] = pc], IDLE, NoReads)

\* step 3 of startAnalysisFlow, run when the instruction wait resolves.
\* out: what the MediaRecorder does ("ok", "ctorThrows", "startThrows").
startRecording(s, f, out, rd) ==
  IF out = "ctorThrows"
    THEN startFailed(s, f, "failed")
  ELSE IF out = "startThrows"
    THEN startFailed([s EXCEPT !.mediaRecorderRef = f, !.chunksRef = <<>>,
                               !.recorder[f] = "inactive"], f, "failed")
  ELSE setStatus([s EXCEPT !.mediaRecorderRef = f, !.chunksRef = <<>>,
                           !.recorder[f] = "recording", !.flowPc[f] = "done"],
                 RECORDING, rd)

skipInstructions(s, out, rd) ==
  LET s1 == cancelSpeech(s)
      g == s1.instructionResolverRef
      s2 == [s1 EXCEPT !.instructionResolverRef = 0,
                       !.isSpeakingInstructions = FALSE]
  IN IF g # 0 /\ s2.flowPc[g] = "speaking"
       THEN startRecording(s2, g, out, rd)
       ELSE s2

\* the executor of the promise speakInstructions returns; speakOK: whether
\* speechSynthesis.speak accepted the utterance or threw.
speakInstructions(s, f, speakOK, out, rd) ==
  LET s1 == [s EXCEPT !.instructionResolverRef = f, !.timer[f] = "armed",
                      !.flowPc[f] = "speaking"]
      s2 == [cancelSpeech(s1) EXCEPT !.isSpeakingInstructions = TRUE]
  IN IF speakOK
       THEN [s2 EXCEPT !.utterance[f] = "queued"]
       ELSE skipInstructions(s2, out, rd)

\* utterance.onend / utterance.onerror
utteranceHandler(s, f, out, rd) ==
  skipInstructions([s EXCEPT !.utterance[f] = "done",
                             !.timer[f] = IF @ = "armed" THEN "off" ELSE @],
                   out, rd)


\* ------------------------------------------------------- external analysis
\* FileReader.readAsDataURL, then result.split(',')[1]: the payload after
\* the "data:<type>;base64" prefix. ok: whether the read succeeded.
blobToBase64(blob, ok) ==
  LET result == <<"data:audio/webm;base64", blob>>
  IN [rejected |-> ~ok, value |-> IF ok THEN result[2] ELSE <<>>]

NoImage == [undef |-> TRUE, hdr |-> "", data |-> -1]
AudioPart(base64Audio) ==
  [kind |-> "inlineData", mimeType |-> "audio/webm", audio |-> base64Audio,
   image |-> NoImage, text |-> ""]
ImagePart(base64Image) ==
  [kind |-> "inlineData", mimeType |-> "image/png", audio |-> <<>>,
   image |-> base64Image, text |-> ""]
TextPart(promptText) ==
  [kind |-> "text", mimeType |-> "", audio |-> <<>>, image |-> NoImage,
   text |-> promptText]

\* spectrogramBase64.replace(/^data:image\/(png|jpg|jpeg);base64,/, "")
stripHeader(x) ==
  IF x.hdr \in StrippedHeaders THEN [x EXCEPT !.hdr = ""] ELSE x

\* requestParts with the prompt pushed before the image part.
requestParts_TextBeforeImage(base64Audio, spectrogramBase64) ==
  IF Truthy(spectrogramBase64)
    THEN <<AudioPart(base64Audio), TextPart(SpectroPrompt),
           ImagePart(stripHeader(spectrogramBase64))>>
    ELSE <<AudioPart(base64Audio), TextPart(AudioPrompt)>>

\* The parts of the generateContent request.
requestParts(base64Audio, spectrogramBase64) ==
  IF Truthy(spectrogramBase64)
    THEN <<AudioPart(base64Audio), ImagePart(stripHeader(spectrogramBase64)),
           TextPart(SpectroPrompt)>>
    ELSE <<AudioPart(base64Audio), TextPart(AudioPrompt)>>

\* analyzeAudioWithGemini whose catch block rethrows: a failure rejects the
\* returned promise.
analyzeAudioWithGemini_Rethrows(key, convOK, resp, audioBlob, spectrogramBase64) ==
  LET conv == blobToBase64(audioBlob, convOK)
      parts == requestParts(conv.value, spectrogramBase64)
      thrown(req, why) ==
        [settled |-> "rejected", value |-> ConnErrMsg, sent |-> req, result |-> why]
  IN IF ~key THEN thrown(NoRequest, "nokey")
     ELSE IF conv.rejected THEN thrown(NoRequest, "conv")
     ELSE IF resp = "error" THEN thrown(parts, "transport")
     ELSE IF resp = "empty"
       THEN [settled |-> "resolved", value |-> NoAnalysisMsg, sent |-> parts,
             result |-> "empty"]
     ELSE [settled |-> "resolved", value |-> ReportText, sent |-> parts,
           result |-> "ok"]

\* analyzeAudioWithGemini for one run of its environment: key (is
\* process.env.API_KEY set), convOK (does the FileReader succeed), resp (what
\* generateContent does: "text", "empty", "error"). settled: how the
\* returned promise settles; sent: the request handed to the model, if any.
analyzeAudioWithGemini(key, convOK, resp, audioBlob, spectrogramBase64) ==
  LET conv == blobToBase64(audioBlob, convOK)
      parts == requestParts(conv.value, spectrogramBase64)
      caught(req, why) ==
        [settled |-> "resolved", value |-> ConnErrMsg, sent |-> req, result |-> why]
  IN IF ~key THEN caught(NoRequest, "nokey")
     ELSE IF conv.rejected THEN caught(NoRequest, "conv")
     ELSE IF resp = "error" THEN caught(parts, "transport")
     ELSE IF resp = "empty"
       THEN [settled |-> "resolved", value |-> NoAnalysisMsg, sent |-> parts,
             result |-> "empty"]
     ELSE [settled |-> "resolved", value |-> ReportText, sent |-> parts,
           result |-> "ok"]

\* performGeminiAnalysis after its await: res is the settled promise.
performSettled(s, r, res) ==
  LET s1 == [s EXCEPT !.analysis[r] =
                        [pc |-> "done", audio |-> <<>>, image |-> Undefined,
                         settled |-> res.settled, result |-> res.result],
                      !.request[r] = NoRequest]
  IN IF res.settled = "resolved"
       THEN setStatus([s1 EXCEPT !.geminiAnalysis = res.value], COMPLETED, NoReads)
       ELSE setStatus([s1 EXCEPT !.geminiAnalysis = FalhaMsg], ERROR, NoReads)

\* performGeminiAnalysis up to its await: with no API key the service
\* returns before its first await, otherwise the blob conversion is pending.
performGeminiAnalysis(s, r, key, audioBlob, spectrogramImage) ==
  LET arg == IF Truthy(spectrogramImage) THEN spectrogramImage ELSE Undefined
      s1 == [s EXCEPT !.analysis[r] =
               [pc |-> "converting", audio |-> audioBlob, image |-> arg,
                settled |-> "pending", result |-> "pending"]]
  IN IF ~key
       THEN performSettled(s1, r,
              analyzeAudioWithGemini(key, TRUE, "text", audioBlob, arg))
       ELSE s1

\* ------------------------------------------------------------------- stop
\* spectrogramRef.current?.getCanvasImage(): nothing, or the canvas as a
\* PNG data URL; the canvas shows the frequency data last published.
getCanvasImage(s) ==
  {Undefined,
   [undef |-> FALSE, hdr |-> PngHeader,
    data |-> IF s.frequencyData = <<>> THEN -1 ELSE s.frequencyData[1]]}

\* stopRecording that does not look at the recorder's state.
stopRecording_NoStateCheck(s, spectrogramImage) ==
  LET s1 == cancelSpeech(s)
      r == s1.mediaRecorderRef
  IN IF r # 0
       THEN LET s2 == [s1 EXCEPT !.recorder[r] = "inactive",
                                 !.stopEvent[r] = TRUE,
                                 !.analyzerOn = FALSE]
                s3 == setStatus(s2, PROCESSING, NoReads)
            IN [s3 EXCEPT !.onstop[r] = [set |-> TRUE, image |-> spectrogramImage]]
       ELSE s1

stopRecording(s, spectrogramImage) ==
  LET s1 == cancelSpeech(s)
      r == s1.mediaRecorderRef
  IN IF r # 0 /\ s1.recorder[r] # "inactive"
       THEN LET s2 == [s1 EXCEPT !.recorder[r] = "inactive",
                                 !.stopEvent[r] = TRUE,
                                 !.analyzerOn = FALSE]
                s3 == setStatus(s2, PROCESSING, NoReads)
            IN [s3 EXCEPT !.onstop[r] = [set |-> TRUE, image |-> spectrogramImage]]
       ELSE s1

\* The recorder's final dataavailable event, then its stop event.
recorderStopped(s, r, hasData, key) ==
  LET s1 == [s EXCEPT !.stopEvent[r] = FALSE,
                      !.chunksRef = IF hasData THEN Append(@, r) ELSE @,
                      !.onstop[r] = UnsetHandler]
  IN IF s.onstop[r].set
       THEN performGeminiAnalysis(s1, r, key, s1.chunksRef, s.onstop[r].image)
       ELSE s1

\* ---------------------------------------------------------------- actions
RecorderOutcomes == {"ok", "ctorThrows", "startThrows"}
Responses == {"text", "empty", "error"}

\* The environment's choices that a call of skipInstructions in state s can
\* consume: the MediaRecorder's behaviour if a start flow is resumed, and
\* the analyzer reads of the first tick if that flow commits RECORDING.
Resumes(s) ==
  s.instructionResolverRef # 0 /\ s.flowPc[s.instructionResolverRef] = "speaking"
Outcomes(s) == IF Resumes(s) THEN RecorderOutcomes ELSE {"ok"}
FirstReads(s, out) ==
  IF Resumes(s) /\ out = "ok" /\ s.status # RECORDING THEN Reads(s) ELSE {NoReads}

\* click on INICIAR TESTE: the button is rendered unless RECORDING and is
\* disabled while PROCESSING or speaking; runs up to `await analyzer.start()`.
StartRequest(f) ==
  /\ status # RECORDING
  /\ ~(status = PROCESSING \/ isSpeakingInstructions)
  /\ flowPc[f] = "new"
  /\ \A g \in 1..(f - 1) : flowPc[g] # "new"
  /\ Commit([Cur EXCEPT !.geminiAnalysis = Null, !.flowPc[f] = "starting"],
            "none")

\* analyzer.start() resolves with the stream; speakInstructions begins.
StartResolved(f) ==
  /\ flowPc[f] = "starting"
  /\ LET s1 == [Cur EXCEPT !.analyzerOn = TRUE]
     IN \/ Commit(speakInstructions(s1, f, TRUE, "ok", NoReads), "none")
        \/ \E out \in RecorderOutcomes :
             \E rd \in (IF out = "ok" /\ status # RECORDING
                          THEN Reads(s1) ELSE {NoReads}) :
               Commit(speakInstructions(s1, f, FALSE, out, rd), "none")

\* analyzer.start() rejects: no input device, or permission denied.
StartRejected(f) ==
  /\ flowPc[f] = "starting"
  /\ Commit(startFailed(Cur, f, "rejected"), "none")

\* click on PULAR INSTRUCAO, rendered while isSpeakingInstructions
SkipClick ==
  /\ isSpeakingInstructions
  /\ \E out \in Outcomes(Cur) : \E rd \in FirstReads(Cur, out) :
       Commit(skipInstructions(Cur, out, rd), "none")

\* the 10 s safety timeout of flow f's playback fires
TimeoutFires(f) ==
  /\ timer[f] = "armed"
  /\ \E out \in Outcomes(Cur) : \E rd \in FirstReads(Cur, out) :
       Commit(skipInstructions([Cur EXCEPT !.timer[f] = "off"], out, rd),
              "none")

\* the utterance finishes speaking: onend
UtteranceEnd(f) ==
  /\ utterance[f] = "queued"
  /\ \E out \in Outcomes(Cur) : \E rd \in FirstReads(Cur, out) :
       Commit(utteranceHandler(Cur, f, out, rd), "none")

\* the synthesizer fails the utterance, or reports its cancellation: onerror
UtteranceError(f) ==
  /\ utterance[f] \in {"queued", "cancelled"}
  /\ \E out \in Outcomes(Cur) : \E rd \in FirstReads(Cur, out) :
       Commit(utteranceHandler(Cur, f, out, rd), "none")

\* an animation frame fires: the updateMetrics closure that scheduled it
\* (always one of a RECORDING render) runs.
Tick ==
  \E id \in frames, rd \in Reads(Cur) :
    Commit(updateMetrics([Cur EXCEPT !.frames = @ \ {id}], RECORDING, rd), "none")

\* the audio input fills the analyzer's buffer with the next window
AudioProducer ==
  /\ analyzerOn
  /\ window < MaxWindow
  /\ Commit([Cur EXCEPT !.window = @ + 1], "none")

\* click on PARAR ANALISE, rendered while RECORDING
StopClick ==
  /\ status = RECORDING
  /\ \E img \in getCanvasImage(Cur) :
       LET accepted == mediaRecorderRef # 0 /\ recorder[mediaRecorderRef] # "inactive"
       IN Commit(stopRecording(Cur, img),
                 IF accepted THEN "accepted" ELSE "ignored")

\* the input stream of a recording recorder ends: the recorder goes inactive
\* by itself and will deliver its events
InputEnds(r) ==
  /\ recorder[r] = "recording"
  /\ Commit([Cur EXCEPT !.recorder[r] = "inactive", !.stopEvent[r] = TRUE],
            "none")

RecorderStopEvent(r) ==
  /\ stopEvent[r]
  /\ \E hasData \in BOOLEAN :
       \E key \in (IF onstop[r].set THEN BOOLEAN ELSE {TRUE}) :
         Commit(recorderStopped(Cur, r, hasData, key), "none")

\* the FileReader of blobToBase64 finishes; on success the request is sent
BlobConverted(r) ==
  /\ analysis[r].pc = "converting"
  /\ \E convOK \in BOOLEAN :
       LET res == analyzeAudioWithGemini(TRUE, convOK, "text",
                                         analysis[r].audio, analysis[r].image)
       IN IF convOK
            THEN Commit([Cur EXCEPT !.analysis[r].pc = "requesting",
                                    !.request[r] = res.sent], "none")
            ELSE Commit(performSettled(Cur, r, res), "none")

\* generateContent settles
ResponseArrives(r) ==
  /\ analysis[r].pc = "requesting"
  /\ \E resp \in Responses :
       Commit(performSettled(Cur, r,
                analyzeAudioWithGemini(TRUE, TRUE, resp,
                                       analysis[r].audio, analysis[r].image)),
              "none")

Next ==
  \/ \E f \in Flows : StartRequest(f)
  \/ \E f \in Flows : StartResolved(f)
  \/ \E f \in Flows : StartRejected(f)
  \/ SkipClick
  \/ \E f \in Flows : TimeoutFires(f)
  \/ \E f \in Flows : UtteranceEnd(f)
  \/ \E f \in Flows : UtteranceError(f)
  \/ Tick
  \/ AudioProducer
  \/ StopClick
  \/ \E r \in Flows : InputEnds(r)
  \/ \E r \in Flows : RecorderStopEvent(r)
  \/ \E r \in Flows : BlobConverted(r)
  \/ \E r \in Flows : ResponseArrives(r)

Spec == Init /\ [][Next]_vars


\* ------------------------------------------------- the service on its own
\* The values a caller can hand over as the still image (string, null or
\* undefined): nothing, the empty string, and strings with and without a
\* data-URL header, with and without a payload.
ImageHeaders == StrippedHeaders \cup {"", "data:image/gif;base64,"}
ServiceImages ==
  {Undefined, EmptyString} \cup
  {[undef |-> FALSE, hdr |-> h, data |-> d] :
     h \in ImageHeaders, d \in Windows \cup {-1}}

\* A session that has just been stopped: its recorder is inactive with the
\* stop event to come, the onstop handler holds the captured image, and the
\* chunks collected so far are in chunksRef.
ServiceInit ==
  /\ status = PROCESSING
  /\ metrics = InitMetrics
  /\ frequencyData = getFrequencyData(0)
  /\ geminiAnalysis = Null
  /\ isSpeakingInstructions = FALSE
  /\ mediaRecorderRef = 1
  /\ chunksRef \in {<<>>, <<1>>}
  /\ animationRef = 1
  /\ instructionResolverRef = 0
  /\ frames = {}
  /\ analyzerOn = FALSE
  /\ window = 0
  /\ flowPc = [f \in Flows |-> IF f = 1 THEN "done" ELSE "new"]
  /\ utterance = [f \in Flows |-> IF f = 1 THEN "done" ELSE "none"]
  /\ timer = [f \in Flows |-> IF f = 1 THEN "off" ELSE "none"]
  /\ recorder = [f \in Flows |-> IF f = 1 THEN "inactive" ELSE "none"]
  /\ stopEvent = [f \in Flows |-> f = 1]
  /\ \E img \in ServiceImages :
       onstop = [f \in Flows |-> IF f = 1 THEN [set |-> TRUE, image |-> img]
                                          ELSE UnsetHandler]
  /\ analysis = [f \in Flows |-> NoAnalysis]
  /\ request = [f \in Flows |-> NoRequest]
  /\ alerted = [f \in Flows |-> FALSE]
  /\ stopOutcome = "none"

ServiceNext ==
  \/ \E r \in Flows : RecorderStopEvent(r)
  \/ \E r \in Flows : BlobConverted(r)
  \/ \E r \in Flows : ResponseArrives(r)

ServiceSpec == ServiceInit /\ [][ServiceNext]_vars


\* ================================================================= claims
InProgress(f) == flowPc[f] \in {"starting", "speaking"}

\* C1: once a stop request is accepted the scheduled animation frame is
\* cancelled in that very step (with status PROCESSING and the analyzer
\* stopped), and as long as status is not RECORDING no frame is pending, none
\* is scheduled and no metrics or frequency data are published.
C1_StopCancelsTicks ==
  [][ /\ (stopOutcome' = "accepted" =>
            frames' = {} /\ status' = PROCESSING /\ ~analyzerOn')
      /\ (status' # RECORDING => frames' = {})
      /\ (status # RECORDING /\ status' # RECORDING =>
            /\ metrics' = metrics
            /\ frequencyData' = frequencyData
            /\ animationRef' = animationRef) ]_vars

\* C1 witness: a stop request was accepted after ticks had run and a frame
\* had been scheduled; that frame is gone.
C1_Witness ==
  /\ stopOutcome = "accepted"
  /\ status = PROCESSING
  /\ animationRef # 0
  /\ frequencyData # <<>>
  /\ frames = {}

\* C2: the published metrics change only in a step that executes a tick
\* under status RECORDING (it publishes frequency data of the window it read
\* and schedules its successor); a stop request, a start flow that fails, and
\* every step taken while status is not RECORDING leave them unchanged.
C2_MetricsOnlyInRecordingTick ==
  [][ /\ (metrics' # metrics =>
            /\ status' = RECORDING
            /\ animationRef' \in frames'
            /\ frequencyData' = getFrequencyData(window'))
      /\ (stopOutcome' # "none" => metrics' = metrics)
      /\ \A f \in Flows :
           (flowPc[f] # flowPc'[f] /\ flowPc'[f] \in {"failed", "rejected"}) =>
             metrics' = metrics
      /\ \A f \in Flows :
           (flowPc[f] = "new" /\ flowPc'[f] # "new") => metrics' = metrics ]_vars

\* C2 witness: a start flow has failed after an earlier session published
\* metrics; they stand at their last value.
C2_Witness ==
  /\ \E f \in Flows : flowPc[f] = "rejected"
  /\ metrics # InitMetrics
  /\ status = IDLE

\* C3: when analyzer.start() fails, that step alerts the user and commits
\* status IDLE; the flow has created no MediaRecorder, queued no utterance,
\* armed no timeout, and the step runs no tick and publishes nothing; the
\* failed flow does none of these later either.
C3_FailedStartLeavesNoSession ==
  [][ \A f \in Flows :
        /\ (flowPc[f] = "starting" /\ flowPc'[f] = "rejected" =>
              /\ alerted'[f]
              /\ status' = IDLE
              /\ recorder'[f] = "none" /\ utterance'[f] = "none" /\ timer'[f] = "none"
              /\ mediaRecorderRef' = mediaRecorderRef
              /\ instructionResolverRef' = instructionResolverRef
              /\ isSpeakingInstructions' = isSpeakingInstructions
              /\ metrics' = metrics /\ frequencyData' = frequencyData
              /\ frames' = {})
        /\ (flowPc[f] = "rejected" =>
              /\ flowPc'[f] = "rejected"
              /\ recorder'[f] = "none" /\ utterance'[f] = "none"
              /\ timer'[f] = "none") ]_vars

\* C3 witness: a flow whose analyzer.start() failed: alerted, status IDLE,
\* nothing of a session created for it.
C3_Witness ==
  \E f \in Flows :
    /\ flowPc[f] = "rejected" /\ alerted[f] /\ timer[f] = "none"
    /\ recorder[f] = "none" /\ utterance[f] = "none"
    /\ status = IDLE


\* C4: an accepted stop request leaves the recorder inactive, the analyzer
\* stopped and status PROCESSING; and whenever status is PROCESSING,
\* COMPLETED or ERROR with no start flow in progress, the analyzer is stopped.
C4_AnalyzerStoppedAfterStop ==
  /\ (stopOutcome = "accepted" =>
        /\ status = PROCESSING
        /\ ~analyzerOn
        /\ recorder[mediaRecorderRef] = "inactive")
  /\ (status \in {PROCESSING, COMPLETED, ERROR} /\ (\A f \in Flows : ~InProgress(f))
        => ~analyzerOn)

\* The audio of recording r alone: nothing but chunks recorder r delivered.
OwnAudio(audio, r) == \A i \in 1..Len(audio) : audio[i] = r

\* C5: the still image is captured in the accepted stop step, from the canvas
\* as it stood before the stop; the analysis started for that recording takes
\* that image (or none, if the capture returned nothing) and that recording's
\* audio; and the request sent carries exactly these.
C5_RequestCarriesStopImage ==
  [][ \A r \in Flows :
        /\ (~onstop[r].set /\ onstop'[r].set =>
              /\ stopOutcome' = "accepted"
              /\ mediaRecorderRef = r
              /\ onstop'[r].image \in getCanvasImage(Cur))
        /\ (analysis[r].pc = "none" /\ analysis'[r].pc = "converting" =>
              /\ onstop[r].set
              /\ analysis'[r].image = onstop[r].image
              /\ OwnAudio(analysis'[r].audio, r))
        /\ (request[r] = NoRequest /\ request'[r] # NoRequest =>
              /\ request'[r][1] = AudioPart(analysis[r].audio)
              /\ OwnAudio(request'[r][1].audio, r)
              /\ IF analysis[r].image.undef
                   THEN Len(request'[r]) = 2
                   ELSE /\ Len(request'[r]) = 3
                        /\ request'[r][2] = ImagePart(stripHeader(analysis[r].image))) ]_vars

\* C6: the pitch, the volume and the frequency data published together
\* derive from one and the same audio window.
C6_TickReadsOneWindow ==
  \/ metrics = InitMetrics /\ frequencyData = <<>>
  \/ \E w \in Windows :
       /\ metrics.pitch = getPitch(w)
       /\ metrics.volume = getVolume(w)
       /\ frequencyData = getFrequencyData(w)

\* C7: status becomes RECORDING only in the step in which a start flow, its
\* instruction wait resolved, starts its recorder; status leaves RECORDING
\* only by an accepted stop request, to PROCESSING.
C7_RecordingEntryAndExit ==
  [][ /\ (status # RECORDING /\ status' = RECORDING =>
            \E f \in Flows :
              /\ InProgress(f) /\ flowPc'[f] = "done"
              /\ recorder'[f] = "recording" /\ mediaRecorderRef' = f)
      /\ (status = RECORDING /\ status' # RECORDING =>
            stopOutcome' = "accepted" /\ status' = PROCESSING) ]_vars


AnalysisFailures == {"nokey", "conv", "transport"}
SettlesFromStart(r) == analysis[r].pc # "done" /\ analysis'[r].pc = "done"

\* C8: an analysis that fails (missing API key, conversion or transport
\* error) ends with status ERROR and geminiAnalysis the failure text; status
\* becomes COMPLETED only when an analysis succeeded.
C8_FailedAnalysisEndsInError ==
  [][ /\ \A r \in Flows :
           SettlesFromStart(r) /\ analysis'[r].result \in AnalysisFailures =>
             status' = ERROR /\ geminiAnalysis' = FalhaMsg
      /\ (status # COMPLETED /\ status' = COMPLETED =>
            \E r \in Flows :
              SettlesFromStart(r) /\ analysis'[r].result \notin AnalysisFailures) ]_vars

\* C9: the promise of analyzeAudioWithGemini always resolves; after a failure
\* it resolves with the fixed connection-error message, which is what the
\* caller then shows; with the API key missing, or the conversion failed, no
\* request has been sent; a request exists only while its response is awaited.
C9_ServiceNeverRejects ==
  [][ \A r \in Flows :
        /\ (SettlesFromStart(r) =>
              /\ analysis'[r].settled = "resolved"
              /\ (analysis'[r].result \in AnalysisFailures =>
                    geminiAnalysis' = ConnErrMsg)
              /\ (analysis'[r].result \in {"nokey", "conv"} =>
                    request[r] = NoRequest /\ analysis[r].pc # "requesting")
              /\ (analysis'[r].result = "nokey" => analysis[r].pc = "none"))
        /\ (request'[r] # NoRequest => analysis'[r].pc = "requesting") ]_vars

\* C9 witness: one analysis failed for the missing key and another for a
\* failed conversion or request; both promises resolved.
C9_Witness ==
  \E r, q \in Flows :
    /\ analysis[r].pc = "done" /\ analysis[r].result = "nokey"
    /\ analysis[r].settled = "resolved"
    /\ analysis[q].pc = "done" /\ analysis[q].result \in {"conv", "transport"}
    /\ analysis[q].settled = "resolved"
    /\ geminiAnalysis = ConnErrMsg

C11_NoRecordingWhileSpeaking ==
  /\ (isSpeakingInstructions =>
        status # RECORDING /\ \A r \in Flows : recorder[r] # "recording")
  /\ \A f \in Flows : InProgress(f) => recorder[f] = "none"

\* C12: every instruction wait can still resolve: the resolver of a flow
\* waiting for its instructions is the one instructionResolverRef holds (the
\* only place skip, the utterance events and the timeout resolve from) and
\* that flow's safety timeout is armed; and while isSpeakingInstructions is
\* true a timeout that will reset it is armed.
C12_InstructionWaitResolves ==
  /\ \A f \in Flows :
       flowPc[f] = "speaking" => instructionResolverRef = f /\ timer[f] = "armed"
  /\ (isSpeakingInstructions => \E f \in Flows : timer[f] = "armed")

\* C13: there is one tick chain: at most one animation frame is pending at
\* any time, a pending frame is the one animationRef names, and while status
\* is RECORDING exactly one is pending (each tick has scheduled its one
\* successor), whatever re-renders and repeated RECORDING requests occur.
C13_OneTickChain ==
  /\ Cardinality(frames) <= 1
  /\ frames \subseteq {animationRef}
  /\ (status = RECORDING => frames = {animationRef})

\* C13 witness: every start flow has requested RECORDING, ticks have run and
\* published metrics, and one frame is pending.
C13_Witness ==
  /\ status = RECORDING
  /\ \A f \in Flows : flowPc[f] = "done"
  /\ metrics # InitMetrics
  /\ frames = {animationRef}

NonEmptyString(x) == ~x.undef /\ x # EmptyString

\* C14: the request has the audio part first and the text prompt last; the
\* image part (PNG, header stripped) and the spectrogram prompt are there
\* exactly when a non-empty image string was supplied; otherwise the request
\* is the audio part and the audio-only prompt.
C14_RequestShape ==
  [][ \A r \in Flows :
        /\ (analysis[r].pc = "none" /\ analysis'[r].pc # "none" =>
              analysis'[r].image.undef = ~NonEmptyString(onstop[r].image)
              \/ analysis'[r].pc = "done")
        /\ (request[r] = NoRequest /\ request'[r] # NoRequest =>
              LET req == request'[r]
                  n == Len(req)
                  img == analysis[r].image
              IN /\ n \in {2, 3}
                 /\ req[1].kind = "inlineData" /\ req[1].mimeType = "audio/webm"
                 /\ req[1].audio = analysis[r].audio
                 /\ req[n].kind = "text"
                 /\ \A i \in 1..(n - 1) : req[i].kind = "inlineData"
                 /\ (NonEmptyString(img) <=> n = 3)
                 /\ (n = 3 =>
                       /\ req[2].mimeType = "image/png"
                       /\ req[2].image.data = img.data
                       /\ req[2].image.hdr =
                            (IF img.hdr \in StrippedHeaders THEN "" ELSE img.hdr)
                       /\ req[3].text = SpectroPrompt)
                 /\ (n = 2 => req[2].text = AudioPrompt)) ]_vars

\* C14 witness: a request in flight that carries audio, the image with its
\* data-URL header stripped, and the spectrogram prompt.
C14_Witness ==
  \E r \in Flows :
    /\ analysis[r].pc = "requesting"
    /\ analysis[r].image.hdr \in StrippedHeaders
    /\ Len(request[r]) = 3
    /\ request[r][1].audio # <<>>
    /\ request[r][2].image.hdr = "" /\ request[r][2].image.data # -1
    /\ request[r][3].text = SpectroPrompt

\* C15: at most one start flow is in progress at any time, so a start
\* request is accepted only while none is, and no two recorders record at
\* once.
C15_OneStartFlow ==
  /\ Cardinality({f \in Flows : InProgress(f)}) <= 1
  /\ Cardinality({r \in Flows : recorder[r] = "recording"}) <= 1

\* The step is the firing of flow f's safety timeout (an utterance event of
\* f also disarms the timer, and marks the utterance done).
TimeoutFired(f) ==
  /\ timer[f] = "armed" /\ timer'[f] = "off"
  /\ ~(utterance[f] \in {"queued", "cancelled"} /\ utterance'[f] = "done")

\* C16: a safety timeout that fires after its own playback's wait has
\* resolved neither resolves the instruction wait of another flow nor
\* cancels another flow's utterance.
C16_TimeoutEndsOwnPlayback ==
  [][ \A f \in Flows :
        TimeoutFired(f) /\ flowPc[f] # "speaking" =>
          \A g \in Flows \ {f} :
            /\ (flowPc[g] = "speaking" => flowPc'[g] = "speaking")
            /\ (utterance[g] = "queued" => utterance'[g] = "queued") ]_vars

\* C17: a start flow that fails after analyzer.start() succeeded releases the
\* input: status IDLE with no start flow in progress never coexists with a
\* started analyzer.
C17_FailedFlowReleasesInput ==
  (status = IDLE /\ \A f \in Flows : ~InProgress(f)) => ~analyzerOn

====
